---- MODULE Spec2Model ----
(***************************************************************************)
(* GoGoGadget: a Firmata client.  The model follows the latest revision of *)
(* the board (src/unnamed/part_002, second file: lines 185-641), the pin   *)
(* (src/unnamed/part_003) and the protocol constants (src/gogogadget.go).  *)
(*                                                                         *)
(* Three goroutines share the Board: New/init (the constructor), run (the  *)
(* read loop, which also executes every handler) and the one-shot timers   *)
(* started by initPins.  The device is the environment: it puts bytes, or  *)
(* a read error, on the serial line.                                       *)
(***************************************************************************)
EXTENDS Integers, Sequences, FiniteSets, TLC

\* ------------------------------------------------------------ bounds --
\* How many chunks the device puts on the line in one behaviour.
MaxSends == 3
\* How many calls of the public API the owner makes in one behaviour.
MaxCalls == 2
\* Payload bytes of the longest Sysex frame the device sends.
LongPayload == 300

\* ------------------------------------------- constants (gogogadget.go) --
digitalMessage == 144
analogMessage == 224
reportDigital == 208
reportAnalog == 192
setPinMode == 244
reportVersion == 249
startSysex == 240
endSysex == 247
stringData == 113
capabilityQuery == 107
capabilityResponse == 108
analogMappingQuery == 105
analogMappingResponse == 106
reportFirmware == 121
midiMsg == 27
sysexMsg == 28

\* Pin modes (part_003).
INPUT == 0
OUTPUT == 1
ANALOG == 2
PWM == 3
SERVO == 4
SHIFT == 5
I2C == 6
validPinModes == <<INPUT, OUTPUT, ANALOG, PWM, SERVO, SHIFT, I2C>>

\* type state (part_003).
LOW == 0
HIGH == 1

\* The 0x7F byte: record delimiter of a capability response, "no analog
\* number" in an analog mapping response and in newPin's digital pins.
NoAnalog == 127

\* What a failed Read leaves on the line: bufio returns (0, err) once and
\* reads on afterwards.
ReadErr == -1

\* ------------------------------------------------- byte arithmetic (Go) --
RECURSIVE BitAnd(_, _)
BitAnd(a, b) ==
    IF a = 0 \/ b = 0 THEN 0
    ELSE (a % 2) * (b % 2) + 2 * BitAnd(a \div 2, b \div 2)

RECURSIVE BitOr(_, _)
BitOr(a, b) ==
    IF a = 0 THEN b
    ELSE IF b = 0 THEN a
    ELSE (IF a % 2 = 1 \/ b % 2 = 1 THEN 1 ELSE 0) + 2 * BitOr(a \div 2, b \div 2)

\* byte << n and byte >> n
Shl(a, n) == (a * (2 ^ n)) % 256
Shr(a, n) == a \div (2 ^ n)

boolToByte(b) == IF b THEN 1 ELSE 0

pinToPort(n) == BitAnd(Shr(n, 3), 15)

wrapInSysex(msg) == <<startSysex>> \o msg \o <<endSysex>>

\* bytes.Contains(s, sub): sub occurs in s as a contiguous run.
Contains(s, sub) ==
    \E i \in 0..(Len(s) - Len(sub)) :
        \A j \in 1..Len(sub) : s[i + j] = sub[j]

\* bytes.Buffer.ReadBytes / bufio.Reader.ReadBytes(delim) on the bytes w:
\* the bytes up to and including the first delim; without one, up to the
\* first read error (the error is consumed too) or all of w.
\* n is the number of items taken from w.
FirstAt(w, S) ==
    IF \E i \in 1..Len(w) : w[i] \in S
    THEN CHOOSE i \in 1..Len(w) : w[i] \in S /\ \A j \in 1..(i - 1) : w[j] \notin S
    ELSE 0

ReadBytes(w, delim) ==
    LET i == FirstAt(w, {delim, ReadErr})
    IN  IF i = 0 THEN [data |-> w, err |-> TRUE, n |-> Len(w)]
        ELSE IF w[i] = delim THEN [data |-> SubSeq(w, 1, i), err |-> FALSE, n |-> i]
        ELSE [data |-> SubSeq(w, 1, i - 1), err |-> TRUE, n |-> i]

\* ------------------------------------------------------- pin (part_003) --
\* unpackPinModeDataSlice without the check of the even length.
unpackPinModeDataSliceNoCheck(data) ==
    [i \in 1..((Len(data) + 1) \div 2) |-> data[2 * i - 1]]

\* Reads the slice of mode+res pairs for a single pin.
unpackPinModeDataSlice(data) ==
    IF Len(data) % 2 # 0 THEN <<>>
    ELSE [i \in 1..(Len(data) \div 2) |-> data[2 * i - 1]]

\* pin.setMode without the case of the unsupported mode.
setModeNoSupportCheck(p, mode) ==
    IF ~Contains(validPinModes, <<mode>>) THEN [p |-> p, err |-> TRUE, frames |-> <<>>]
    ELSE IF mode = p.mode THEN [p |-> p, err |-> TRUE, frames |-> <<>>]
    ELSE [p |-> [p EXCEPT !.mode = mode],
          err |-> FALSE,
          frames |-> << <<setPinMode, p.num, mode>> >>]

\* pin.setMode with the mode flag updated before the error checking.
setModeStoresFirst(p, mode) ==
    LET q == [p EXCEPT !.mode = mode]
    IN  IF ~Contains(validPinModes, <<mode>>) THEN [p |-> q, err |-> TRUE, frames |-> <<>>]
        ELSE IF ~Contains(p.supportedModes, <<mode>>) THEN [p |-> q, err |-> TRUE, frames |-> <<>>]
        ELSE IF mode = p.mode THEN [p |-> q, err |-> TRUE, frames |-> <<>>]
        ELSE [p |-> q,
              err |-> FALSE,
              frames |-> << <<setPinMode, p.num, mode>> >>]

\* pin.setMode without the write to the serial port.
setModeNoWrite(p, mode) ==
    IF ~Contains(validPinModes, <<mode>>) THEN [p |-> p, err |-> TRUE, frames |-> <<>>]
    ELSE IF ~Contains(p.supportedModes, <<mode>>) THEN [p |-> p, err |-> TRUE, frames |-> <<>>]
    ELSE IF mode = p.mode THEN [p |-> p, err |-> TRUE, frames |-> <<>>]
    ELSE [p |-> [p EXCEPT !.mode = mode], err |-> FALSE, frames |-> <<>>]

\* pin.setMode: the pin afterwards, whether an error is returned, and the
\* frames written to the serial port.
setMode(p, mode) ==
    IF ~Contains(validPinModes, <<mode>>) THEN [p |-> p, err |-> TRUE, frames |-> <<>>]
    ELSE IF ~Contains(p.supportedModes, <<mode>>) THEN [p |-> p, err |-> TRUE, frames |-> <<>>]
    ELSE IF mode = p.mode THEN [p |-> p, err |-> TRUE, frames |-> <<>>]
    ELSE [p |-> [p EXCEPT !.mode = mode],
          err |-> FALSE,
          frames |-> << <<setPinMode, p.num, mode>> >>]

\* pin.setReporting with the flag stored before the mode is checked.
setReportingStoresFirst(p, newState) ==
    IF newState /\ p.mode # INPUT /\ p.mode # ANALOG
    THEN [p |-> [p EXCEPT !.reporting = newState], err |-> TRUE, frames |-> <<>>]
    ELSE [p |-> [p EXCEPT !.reporting = newState],
          err |-> FALSE,
          frames |->
              IF p.mode = ANALOG
              THEN << <<BitOr(reportAnalog, p.analogNum), boolToByte(newState)>> >>
              ELSE IF p.mode = OUTPUT
              THEN << <<BitOr(reportDigital, p.port), boolToByte(newState)>> >>
              ELSE <<>>]

\* pin.setReporting.  The switch has an empty INPUT case (Go does not fall
\* through), so msg stays nil there and in every mode but ANALOG and
\* OUTPUT; writing a nil slice puts no byte on the line.
setReporting(p, newState) ==
    IF newState /\ p.mode # INPUT /\ p.mode # ANALOG
    THEN [p |-> p, err |-> TRUE, frames |-> <<>>]
    ELSE [p |-> [p EXCEPT !.reporting = newState],
          err |-> FALSE,
          frames |->
              IF p.mode = ANALOG
              THEN << <<BitOr(reportAnalog, p.analogNum), boolToByte(newState)>> >>
              ELSE IF p.mode = OUTPUT
              THEN << <<BitOr(reportDigital, p.port), boolToByte(newState)>> >>
              ELSE <<>>]

\* newPin without the setReporting(false) of an analog pin.
newPinNoReportOff(pinNum, aPinNum, modes) ==
    LET p0 == [num |-> pinNum, analogNum |-> aPinNum, port |-> pinToPort(pinNum),
               mode |-> INPUT, reporting |-> FALSE, supportedModes |-> modes,
               digitalVal |-> 0, analogVal |-> 0]
    IN  IF Contains(modes, <<ANALOG>>)
        THEN LET a == setMode(p0, ANALOG)
             IN  [p |-> a.p, frames |-> a.frames]
        ELSE LET o == setMode(p0, OUTPUT)
             IN  [p |-> o.p, frames |-> o.frames]

\* newPin: the pin and the frames its default mode sends.  The zero value
\* of mode is INPUT; digitalVal and analogVal are the fields the board
\* reads and writes (part_002 429, 475).
newPin(pinNum, aPinNum, modes) ==
    LET p0 == [num |-> pinNum, analogNum |-> aPinNum, port |-> pinToPort(pinNum),
               mode |-> INPUT, reporting |-> FALSE, supportedModes |-> modes,
               digitalVal |-> 0, analogVal |-> 0]
    IN  IF Contains(modes, <<ANALOG>>)
        THEN LET a == setMode(p0, ANALOG)
                 r == setReporting(a.p, FALSE)
             IN  [p |-> r.p, frames |-> a.frames \o r.frames]
        ELSE LET o == setMode(p0, OUTPUT)
             IN  [p |-> o.p, frames |-> o.frames]

\* ------------------------------------- handlers' parsing (part_002) --
\* handleCapabilityResponse's loop: one info slice per ReadBytes(0x7F)
\* chunk of m.data[2 : len-1]; the last byte of every chunk is dropped,
\* delimiter or not.
\* The k-th chunk ends at the k-th delimiter (or read error) of buf; a
\* last chunk without delimiter runs to the end of buf.
CapStops(buf) == {i \in 1..Len(buf) : buf[i] \in {NoAnalog, ReadErr}}

CapChunk(buf, from, to) ==
    LET r == ReadBytes(SubSeq(buf, from, to), NoAnalog)
        d == r.data
    IN  unpackPinModeDataSlice(SubSeq(d, 1, Len(d) - 1))

CapRecords(buf) ==
    LET stops == CapStops(buf)
        n == Cardinality(stops)
        stop(k) == IF k = 0 THEN 0
                   ELSE CHOOSE i \in stops : Cardinality({j \in stops : j < i}) = k - 1
        last == stop(n)
        whole == [k \in 1..n |-> CapChunk(buf, stop(k - 1) + 1, stop(k))]
    IN  IF last < Len(buf)
        THEN Append(whole, CapChunk(buf, last + 1, Len(buf)))
        ELSE whole

\* The switch of handleCapabilityResponse.
PinClass(info) ==
    IF Contains(info, <<ANALOG>>) THEN "analog"
    ELSE IF Contains(info, <<INPUT, OUTPUT>>) THEN "digital"
    ELSE "none"

\* The map (pin -> supported modes) of one class; currentPin is a byte.
CapMap(recs, cls) ==
    LET idx == {k \in 1..Len(recs) : PinClass(recs[k]) = cls}
        last(p) == CHOOSE k \in idx :
                       /\ (k - 1) % 256 = p
                       /\ \A j \in idx : (j - 1) % 256 = p => j <= k
    IN  [p \in {(k - 1) % 256 : k \in idx} |-> recs[last(p)]]

SysexBody(data) == SubSeq(data, 3, Len(data) - 1)

\* handleAnalogMappingResponse's loop over m.data[2 : len-1]: every entry
\* is stored, 0x7F included; index 67 is stored as 13.
RECURSIVE StoreMapping(_, _, _)
StoreMapping(amap, body, i) ==
    IF i > Len(body) THEN amap
    ELSE LET key == (i - 1) % 256
             val == IF i - 1 = 67 THEN 13 ELSE body[i]
             rest == [p \in (DOMAIN amap) \ {key} |-> amap[p]]
         IN  StoreMapping((key :> val) @@ rest, body, i + 1)

\* -------------------------------------------- initPins' build loops --
\* The orders in which a Go range may visit the keys of a map.
Orders(S) ==
    {o \in [1..Cardinality(S) -> S] : \A i, j \in 1..Cardinality(S) : o[i] = o[j] => i = j}

\* One iteration of the analog loop.  Indexing analogToNormal past its
\* length panics, after the pin was stored and its frames written.
AnalogStep(st, pin, modes, amap) ==
    IF pin \notin DOMAIN amap THEN st
    ELSE LET np == newPin(pin, amap[pin], modes)
             st1 == [st EXCEPT !.pins = (pin :> np.p) @@ [q \in (DOMAIN @) \ {pin} |-> @[q]],
                               !.sent = @ \o np.frames]
         IN  IF amap[pin] < Len(st.a2n)
             THEN [st1 EXCEPT !.a2n[amap[pin] + 1] = pin]
             ELSE [st1 EXCEPT !.panic = TRUE]

RECURSIVE BuildAnalog(_, _, _, _)
BuildAnalog(st, order, analog, amap) ==
    IF order = <<>> \/ st.panic THEN st
    ELSE BuildAnalog(AnalogStep(st, Head(order), analog[Head(order)], amap),
                     Tail(order), analog, amap)

DigitalStep(st, pin, modes) ==
    LET np == newPin(pin, NoAnalog, modes)
    IN  [st EXCEPT !.pins = (pin :> np.p) @@ [q \in (DOMAIN @) \ {pin} |-> @[q]],
                   !.sent = @ \o np.frames]

RECURSIVE BuildDigital(_, _, _)
BuildDigital(st, order, digital) ==
    IF order = <<>> \/ st.panic THEN st
    ELSE BuildDigital(DigitalStep(st, Head(order), digital[Head(order)]),
                      Tail(order), digital)

\* Lines 376-393 of initPins, the map keys visited in the orders oa and od.
BuildPins(pins0, sent0, analog, digital, amap, oa, od) ==
    LET st0 == [pins |-> pins0,
                a2n |-> [i \in 1..Cardinality(DOMAIN amap) |-> 0],
                sent |-> sent0,
                panic |-> FALSE]
    IN  BuildDigital(BuildAnalog(st0, oa, analog, amap), od, digital)

\* ------------------------------------------------------------- device --
\* What the device may put on the line in one go: whole frames of the
\* wire format, a stray data byte, and frames cut short by a read error.
FirmwareFrame == <<startSysex, reportFirmware, 2, 5, 83, endSysex>>
\* pin 0 = {Input, Output}, pin 1 = {Analog res 10}
CapFrameA == <<startSysex, capabilityResponse, 0, 1, 1, 1, 127, 2, 10, 127, endSysex>>
\* pin 0 = {Input, Output, Analog}, pin 1 = {Output, Input}
CapFrameB == <<startSysex, capabilityResponse, 0, 1, 1, 1, 2, 10, 127, 1, 1, 0, 1, 127, endSysex>>
\* pin 0 = a record of 3 bytes, pin 1 = {Input, Output}
CapFrameOdd == <<startSysex, capabilityResponse, 0, 1, 1, 127, 0, 1, 1, 1, 127, endSysex>>
\* pin 0 -> none, pin 1 -> A0
MapFrameA == <<startSysex, analogMappingResponse, 127, 0, endSysex>>
\* pin 0 -> A0, pin 1 -> none
MapFrameB == <<startSysex, analogMappingResponse, 0, 127, endSysex>>
StringFrame == <<startSysex, stringData, 1, endSysex>>
LongFrame == <<startSysex, stringData>> \o [i \in 1..LongPayload |-> 1] \o <<endSysex>>
DigitalFrame == <<digitalMessage + 1, 1, 0>>
AnalogFrame == <<analogMessage + 3, 5, 0>>
VersionFrame == <<reportVersion, 2, 5>>
StrayByte == <<5>>

WholeFrames ==
    {FirmwareFrame, CapFrameA, CapFrameB, CapFrameOdd, MapFrameA, MapFrameB, StringFrame,
     LongFrame, DigitalFrame, AnalogFrame, VersionFrame}

BrokenFrames ==
    {<<ReadErr>>, <<digitalMessage + 1, ReadErr>>, <<digitalMessage + 1, 1, ReadErr>>,
     <<startSysex, capabilityResponse, ReadErr>>}

DeviceChunks == WholeFrames \cup BrokenFrames \cup {StrayByte}

\* -------------------------------------------------------------- state --
VARIABLES
    initPC,          \* New/init: "new", "failed", "select", "sendAMQ", "sendCQ", "returned"
    runPC,           \* run: "off", "header", "sysex", "lsb", "msb", and inside a
                     \* handler "reboot", "ready", "flag"; "panic" ends the process
    header, lsb,     \* run's locals
    wireLog,         \* every item the device has put on the line, in order
    rpos,            \* how many of them run has read
    nSent,           \* chunks the device has sent
    maj, min, firmware,
    pinsInitialized, pins, analogMapping, analogToNormal,
    timers,          \* pending time.AfterFunc callbacks
    sent,            \* the frames written to the serial port, in order
    msgAt,           \* position in wireLog of the header of the frame being read
    dispatchLog,     \* the messages handed to handleCallback, in order
    dw,              \* the locals of the DigitalWrite call in progress
    calls,           \* the calls of the public API that have returned, in order
    got,             \* the slice AnalogMapping() returned to the owner
    serial           \* b.serial: "open", "flushed" (inside Close), "closed"

vars == <<initPC, runPC, header, lsb, wireLog, rpos, nSent, maj, min, firmware,
          pinsInitialized, pins, analogMapping, analogToNormal, timers, sent,
          msgAt, dispatchLog, dw, calls, got, serial>>

\* The state of the owner's goroutine, which calls the public API.
apiVars == <<dw, calls, got, serial>>

\* No slice handed out yet.  fresh: the slice has a backing array of its
\* own; otherwise it shares analogToNormal's.
NoSlice == [fresh |-> TRUE, data |-> <<>>]

\* No DigitalWrite in progress.
\* log0 is history: the number of messages dispatched when the call began.
NoCall == [pc |-> "idle", pin |-> 0, s |-> 0, port |-> 0, i |-> 0, portVal |-> 0, log0 |-> 0]

boardVars == <<maj, min, firmware, pinsInitialized, pins, analogMapping,
               analogToNormal, timers, sent>>

\* The bytes on the line that run has not read yet.
Wire == SubSeq(wireLog, rpos + 1, Len(wireLog))

\* A panic of run's goroutine or log.Fatal ends the process.
Alive == runPC \notin {"panic", "exited"}

Init ==
    /\ initPC = "new"
    /\ runPC = "off"
    /\ header = 0
    /\ lsb = 0
    /\ wireLog = <<>>
    /\ rpos = 0
    /\ nSent = 0
    /\ maj = 0
    /\ min = 0
    /\ firmware = <<>>
    /\ pinsInitialized = FALSE
    /\ pins = <<>>
    /\ analogMapping = <<>>
    /\ analogToNormal = <<>>
    /\ timers = 0
    /\ sent = <<>>
    /\ msgAt = 0
    /\ dispatchLog = <<>>
    /\ dw = NoCall
    /\ calls = <<>>
    /\ got = NoSlice
    /\ serial = "open"

\* ------------------------------------------------------------ New/init --
\* New going on to init whatever OpenPort and Flush returned.
NewRunsAnyway(outcome) ==
    /\ initPC = "new"
    /\ initPC' = IF outcome = "ok" THEN "select" ELSE "failed"
    /\ runPC' = "header"
    /\ UNCHANGED <<header, lsb, wireLog, rpos, nSent, msgAt, dispatchLog>>
    /\ UNCHANGED boardVars
    /\ UNCHANGED apiVars

\* New up to init's "go b.run()": the port opens and flushes, or New
\* returns the error.
New(outcome) ==
    /\ initPC = "new"
    /\ initPC' = IF outcome = "ok" THEN "select" ELSE "failed"
    /\ runPC' = IF outcome = "ok" THEN "header" ELSE "off"
    /\ UNCHANGED <<header, lsb, wireLog, rpos, nSent, msgAt, dispatchLog>>
    /\ UNCHANGED boardVars
    /\ UNCHANGED apiVars

\* init's select, case <-b.boardDoneReboot: the rendezvous with
\* handleReportFirmware's send.
RebootRendezvous ==
    /\ Alive
    /\ initPC = "select"
    /\ runPC = "reboot"
    /\ initPC' = "sendAMQ"
    /\ runPC' = "header"
    /\ UNCHANGED <<header, lsb, wireLog, rpos, nSent, msgAt, dispatchLog>>
    /\ UNCHANGED boardVars
    /\ UNCHANGED apiVars

InitSendAnalogMappingQuery ==
    /\ Alive
    /\ initPC = "sendAMQ"
    /\ sent' = Append(sent, wrapInSysex(<<analogMappingQuery>>))
    /\ initPC' = "sendCQ"
    /\ UNCHANGED <<runPC, header, lsb, wireLog, rpos, nSent, msgAt, dispatchLog>>
    /\ UNCHANGED <<maj, min, firmware, pinsInitialized, pins, analogMapping,
                   analogToNormal, timers>>
    /\ UNCHANGED apiVars

InitSendCapabilityQuery ==
    /\ Alive
    /\ initPC = "sendCQ"
    /\ sent' = Append(sent, wrapInSysex(<<capabilityQuery>>))
    /\ initPC' = "select"
    /\ UNCHANGED <<runPC, header, lsb, wireLog, rpos, nSent, msgAt, dispatchLog>>
    /\ UNCHANGED <<maj, min, firmware, pinsInitialized, pins, analogMapping,
                   analogToNormal, timers>>
    /\ UNCHANGED apiVars

\* init's select, case <-b.ready: the rendezvous with initPins' send; New
\* returns the board.
ReadyRendezvous ==
    /\ Alive
    /\ initPC = "select"
    /\ runPC = "ready"
    /\ initPC' = "returned"
    /\ runPC' = "flag"
    /\ UNCHANGED <<header, lsb, wireLog, rpos, nSent, msgAt, dispatchLog>>
    /\ UNCHANGED boardVars
    /\ UNCHANGED apiVars

\* The callback of initPins' time.AfterFunc.
TimerFire ==
    /\ Alive
    /\ timers > 0
    /\ timers' = timers - 1
    /\ sent' = Append(sent, wrapInSysex(<<capabilityQuery>>))
    /\ UNCHANGED <<initPC, runPC, header, lsb, wireLog, rpos, nSent, msgAt, dispatchLog>>
    /\ UNCHANGED <<maj, min, firmware, pinsInitialized, pins, analogMapping, analogToNormal>>
    /\ UNCHANGED apiVars

\* -------------------------------------------------------------- device --
DeviceSend(chunk) ==
    /\ Alive
    /\ serial # "closed"
    /\ initPC \notin {"new", "failed"}
    /\ nSent < MaxSends
    /\ nSent' = nSent + 1
    /\ wireLog' = wireLog \o chunk
    /\ UNCHANGED <<initPC, runPC, header, lsb, rpos, msgAt, dispatchLog>>
    /\ UNCHANGED boardVars
    /\ UNCHANGED apiVars

\* ------------------------------------------------------------ handlers --
\* init's registrations: command byte -> handler.
msgHandlers ==
    (reportVersion :> "handleReportVersion")
        @@ (reportFirmware :> "handleReportFirmware")
        @@ (capabilityResponse :> "handleCapabilityResponse")
        @@ (analogMappingResponse :> "handleAnalogMappingResponse")
        @@ (analogMessage :> "handleAnalogMessage")
        @@ (digitalMessage :> "handleDigitalMessage")

\* handleCallback's switch without the mask of the low nibble.
CmdOfNoMask(msg) ==
    IF msg.t = midiMsg THEN msg.data[1]
    ELSE IF msg.t = sysexMsg THEN msg.data[2]
    ELSE 0

\* handleCallback's switch: the command byte of a message.
CmdOf(msg) ==
    IF msg.t = midiMsg
    THEN IF msg.data[1] < 240 THEN BitAnd(msg.data[1], 240) ELSE msg.data[1]
    ELSE IF msg.t = sysexMsg THEN msg.data[2]
    ELSE 0

\* handleCallback's lookup: the handler called for msg, or "none".
HandlerOf(msg) ==
    IF CmdOf(msg) \in DOMAIN msgHandlers THEN msgHandlers[CmdOf(msg)] ELSE "none"

handleReportVersion(m) ==
    /\ maj' = m.data[2]
    /\ min' = m.data[3]
    /\ runPC' = "header"
    /\ UNCHANGED <<firmware, pinsInitialized, pins, analogMapping, analogToNormal,
                   timers, sent>>

\* m.data[4 : len(m.data)-1] panics on a message of fewer than 5 bytes.
\* The send on boardDoneReboot blocks run until init receives.
handleReportFirmware(m) ==
    IF Len(m.data) < 5
    THEN /\ runPC' = "panic"
         /\ UNCHANGED boardVars
    ELSE /\ firmware' = SubSeq(m.data, 5, Len(m.data) - 1)
         /\ runPC' = IF ~pinsInitialized THEN "reboot" ELSE "header"
         /\ UNCHANGED <<maj, min, pinsInitialized, pins, analogMapping, analogToNormal,
                        timers, sent>>

handleAnalogMappingResponse(m) ==
    /\ analogMapping' = StoreMapping(analogMapping, SysexBody(m.data), 1)
    /\ runPC' = "header"
    /\ UNCHANGED <<maj, min, firmware, pinsInitialized, pins, analogToNormal, timers, sent>>

\* The message is only logged.
handleAnalogMessage(m) ==
    /\ runPC' = "header"
    /\ UNCHANGED boardVars

DigitalReport(p, m) ==
    LET portNum == BitAnd(m.data[1], 15)
        portVal == BitOr(m.data[2], Shl(m.data[3], 7))
        i == p.num % 8
    IN  IF p.port = portNum /\ p.mode = INPUT
        THEN [p EXCEPT !.digitalVal = BitAnd(Shr(portVal, BitAnd(i, 7)), 1)]
        ELSE p

handleDigitalMessage(m) ==
    /\ pins' = [n \in DOMAIN pins |-> DigitalReport(pins[n], m)]
    /\ runPC' = "header"
    /\ UNCHANGED <<maj, min, firmware, pinsInitialized, analogMapping, analogToNormal,
                   timers, sent>>

\* initPins with the send on b.ready moved before the build loops.
initPinsEarlyReady(analog, digital) ==
    IF pinsInitialized
    THEN /\ runPC' = "header"
         /\ UNCHANGED boardVars
    ELSE IF Cardinality(DOMAIN analogMapping) = 0
    THEN /\ sent' = Append(sent, wrapInSysex(<<analogMappingQuery>>))
         /\ timers' = timers + 1
         /\ runPC' = "header"
         /\ UNCHANGED <<maj, min, firmware, pinsInitialized, pins, analogMapping,
                        analogToNormal>>
    ELSE /\ runPC' = "ready"
         /\ UNCHANGED boardVars

\* initPins without the pinsInitialized check.
initPinsNoGuard(analog, digital) ==
    IF Cardinality(DOMAIN analogMapping) = 0
    THEN /\ sent' = Append(sent, wrapInSysex(<<analogMappingQuery>>))
         /\ timers' = timers + 1
         /\ runPC' = "header"
         /\ UNCHANGED <<maj, min, firmware, pinsInitialized, pins, analogMapping,
                        analogToNormal>>
    ELSE \E oa \in Orders(DOMAIN analog), od \in Orders(DOMAIN digital) :
             LET b == BuildPins(pins, sent, analog, digital, analogMapping, oa, od)
             IN  /\ pins' = b.pins
                 /\ analogToNormal' = b.a2n
                 /\ sent' = b.sent
                 /\ runPC' = IF b.panic THEN "panic" ELSE "ready"
                 /\ UNCHANGED <<maj, min, firmware, pinsInitialized, analogMapping, timers>>

\* initPins without the time.AfterFunc retry.
initPinsNoRetry(analog, digital) ==
    IF pinsInitialized
    THEN /\ runPC' = "header"
         /\ UNCHANGED boardVars
    ELSE IF Cardinality(DOMAIN analogMapping) = 0
    THEN /\ sent' = Append(sent, wrapInSysex(<<analogMappingQuery>>))
         /\ runPC' = "header"
         /\ UNCHANGED <<maj, min, firmware, pinsInitialized, pins, analogMapping,
                        analogToNormal, timers>>
    ELSE \E oa \in Orders(DOMAIN analog), od \in Orders(DOMAIN digital) :
             LET b == BuildPins(pins, sent, analog, digital, analogMapping, oa, od)
             IN  /\ pins' = b.pins
                 /\ analogToNormal' = b.a2n
                 /\ sent' = b.sent
                 /\ runPC' = IF b.panic THEN "panic" ELSE "ready"
                 /\ UNCHANGED <<maj, min, firmware, pinsInitialized, analogMapping, timers>>

\* initPins.  With the mapping known, the build runs up to the blocking
\* send on b.ready, or panics part of the way.
initPins(analog, digital) ==
    IF pinsInitialized
    THEN /\ runPC' = "header"
         /\ UNCHANGED boardVars
    ELSE IF Cardinality(DOMAIN analogMapping) = 0
    THEN /\ sent' = Append(sent, wrapInSysex(<<analogMappingQuery>>))
         /\ timers' = timers + 1
         /\ runPC' = "header"
         /\ UNCHANGED <<maj, min, firmware, pinsInitialized, pins, analogMapping,
                        analogToNormal>>
    ELSE \E oa \in Orders(DOMAIN analog), od \in Orders(DOMAIN digital) :
             LET b == BuildPins(pins, sent, analog, digital, analogMapping, oa, od)
             IN  /\ pins' = b.pins
                 /\ analogToNormal' = b.a2n
                 /\ sent' = b.sent
                 /\ runPC' = IF b.panic THEN "panic" ELSE "ready"
                 /\ UNCHANGED <<maj, min, firmware, pinsInitialized, analogMapping, timers>>

handleCapabilityResponse(m) ==
    LET recs == CapRecords(SysexBody(m.data))
    IN  initPins(CapMap(recs, "analog"), CapMap(recs, "digital"))

\* handleCallback.
handleCallback(msg) ==
    LET cb == HandlerOf(msg)
    IN  /\ dispatchLog' = Append(dispatchLog,
                                 [t |-> msg.t, data |-> msg.data, at |-> msgAt,
                                  cmd |-> CmdOf(msg), cb |-> cb])
        /\ CASE cb = "handleReportVersion" -> handleReportVersion(msg)
             [] cb = "handleReportFirmware" -> handleReportFirmware(msg)
             [] cb = "handleCapabilityResponse" -> handleCapabilityResponse(msg)
             [] cb = "handleAnalogMappingResponse" -> handleAnalogMappingResponse(msg)
             [] cb = "handleAnalogMessage" -> handleAnalogMessage(msg)
             [] cb = "handleDigitalMessage" -> handleDigitalMessage(msg)
             [] OTHER -> /\ runPC' = "header"
                         /\ UNCHANGED boardVars

\* initPins without its last statement: the flag stays unset.
RunSetInitializedSkipped ==
    /\ runPC = "flag"
    /\ runPC' = "header"
    /\ UNCHANGED <<initPC, header, lsb, wireLog, rpos, nSent, msgAt, dispatchLog>>
    /\ UNCHANGED boardVars
    /\ UNCHANGED apiVars

\* The last statement of initPins, after New has received from b.ready.
RunSetInitialized ==
    /\ runPC = "flag"
    /\ pinsInitialized' = TRUE
    /\ runPC' = "header"
    /\ UNCHANGED <<initPC, header, lsb, wireLog, rpos, nSent, msgAt, dispatchLog>>
    /\ UNCHANGED <<maj, min, firmware, pins, analogMapping, analogToNormal, timers, sent>>
    /\ UNCHANGED apiVars

\* Version(): "maj.min"; Firmware(): the name and Version().
Version == <<maj, min>>
Firmware == <<firmware, Version>>

\* AnalogMapping(): a copy of analogToNormal.
AnalogMapping == [i \in 1..Len(analogToNormal) |-> analogToNormal[i]]

\* ----------------------------------------------------------------- run --
\* run with every handler started in a goroutine of its own: the loop reads
\* on while a handler is blocked.
RunAtAsync(pc) ==
    \/ runPC = pc
    \/ pc = "header" /\ runPC \in {"reboot", "ready", "flag"}

\* run may read the line only between two handlers.
RunAt(pc) == runPC = pc

\* b.buf.ReadByte() returns when a byte has arrived or the read fails; on
\* a closed port every read fails at once.
CanRead == rpos < Len(wireLog) \/ serial = "closed"
NextItem == IF rpos < Len(wireLog) THEN wireLog[rpos + 1] ELSE ReadErr
Taken == IF rpos < Len(wireLog) THEN 1 ELSE 0

\* header, _ := b.buf.ReadByte(): the error is dropped and header is 0.
RunReadHeader ==
    /\ RunAt("header")
    /\ CanRead
    /\ LET item == NextItem
           h == IF item = ReadErr THEN 0 ELSE item
       IN  /\ header' = h
           /\ runPC' = IF h = startSysex THEN "sysex" ELSE "lsb"
    /\ rpos' = rpos + Taken
    /\ msgAt' = rpos + 1
    /\ UNCHANGED <<initPC, lsb, wireLog, nSent, dispatchLog>>
    /\ UNCHANGED boardVars
    /\ UNCHANGED apiVars

\* The message in a buffer of 255 bytes, as an earlier parse kept it.
SysexDataFixed(hdr, data) ==
    SubSeq(<<hdr>> \o data, 1, IF Len(data) + 1 > 255 THEN 255 ELSE Len(data) + 1)

\* msg.data = append([]byte{header}, data...)
SysexData(hdr, data) == <<hdr>> \o data

\* data, err := b.buf.ReadBytes(endSysex): returns at the end marker or at
\* a read error, whichever comes first.

RunReadSysex ==
    /\ RunAt("sysex")
    /\ FirstAt(Wire, {endSysex, ReadErr}) # 0 \/ serial = "closed"
    /\ LET r == ReadBytes(Wire, endSysex)
       IN  /\ rpos' = rpos + r.n
           /\ IF r.err
              THEN /\ runPC' = "header"
                   /\ UNCHANGED dispatchLog
                   /\ UNCHANGED boardVars
              ELSE handleCallback([t |-> sysexMsg, data |-> SysexData(header, r.data)])
    /\ UNCHANGED <<initPC, header, lsb, wireLog, nSent, msgAt>>
    /\ UNCHANGED apiVars

RunReadLsb ==
    /\ RunAt("lsb")
    /\ CanRead
    /\ LET item == NextItem
       IN  IF item = ReadErr
           THEN /\ runPC' = "header"
                /\ UNCHANGED lsb
           ELSE /\ runPC' = "msb"
                /\ lsb' = item
    /\ rpos' = rpos + Taken
    /\ UNCHANGED <<initPC, header, wireLog, nSent, msgAt, dispatchLog>>
    /\ UNCHANGED boardVars
    /\ UNCHANGED apiVars

RunReadMsb ==
    /\ RunAt("msb")
    /\ CanRead
    /\ LET item == NextItem
       IN  IF item = ReadErr
           THEN /\ runPC' = "header"
                /\ UNCHANGED dispatchLog
                /\ UNCHANGED boardVars
           ELSE handleCallback([t |-> midiMsg, data |-> <<header, lsb, item>>])
    /\ rpos' = rpos + Taken
    /\ UNCHANGED <<initPC, header, lsb, wireLog, nSent, msgAt>>
    /\ UNCHANGED apiVars

\* ---------------------------------------------------------------- spec --
Next ==
    \/ \E outcome \in {"ok", "openError", "flushError"} : New(outcome)
    \/ RebootRendezvous
    \/ InitSendAnalogMappingQuery
    \/ InitSendCapabilityQuery
    \/ ReadyRendezvous
    \/ TimerFire
    \/ \E chunk \in DeviceChunks : DeviceSend(chunk)
    \/ RunReadHeader
    \/ RunReadSysex
    \/ RunReadLsb
    \/ RunReadMsb
    \/ RunSetInitialized

Spec == Init /\ [][Next]_vars

\* The goroutines of the program are scheduled fairly; the device owes
\* nothing.
FairSpec ==
    /\ Spec
    /\ WF_vars(RebootRendezvous)
    /\ WF_vars(InitSendAnalogMappingQuery)
    /\ WF_vars(InitSendCapabilityQuery)
    /\ WF_vars(ReadyRendezvous)
    /\ WF_vars(TimerFire)
    /\ WF_vars(RunReadHeader)
    /\ WF_vars(RunReadSysex)
    /\ WF_vars(RunReadLsb)
    /\ WF_vars(RunReadMsb)
    /\ WF_vars(RunSetInitialized)
    /\ WF_vars(\E outcome \in {"ok", "openError", "flushError"} : New(outcome))

\* The constructor's goroutine alone is scheduled fairly: init comes back
\* to its select and takes a send that is offered.
InitFairSpec ==
    /\ Spec
    /\ WF_vars(RebootRendezvous)
    /\ WF_vars(InitSendAnalogMappingQuery)
    /\ WF_vars(InitSendCapabilityQuery)
    /\ WF_vars(ReadyRendezvous)

\* ---------------------------------------------------------- public API --
\* The owner holds the Board once New has returned it, and calls one
\* method at a time.  Nothing locks the pin table: run's handlers execute
\* between any two statements of a call.
CanCall ==
    /\ Alive
    /\ serial = "open"
    /\ initPC = "returned"
    /\ dw.pc = "idle"
    /\ Len(calls) < MaxCalls

Returned(op, pin, arg, err, frames) ==
    [op |-> op, pin |-> pin, arg |-> arg, err |-> err, frames |-> frames]

\* SetPinMode.
SetPinMode(pin, mode) ==
    /\ CanCall
    /\ IF pin \notin DOMAIN pins
       THEN /\ calls' = Append(calls, Returned("SetPinMode", pin, mode, TRUE, <<>>))
            /\ UNCHANGED <<pins, sent>>
       ELSE LET r == setMode(pins[pin], mode)
            IN  /\ pins' = [pins EXCEPT ![pin] = r.p]
                /\ sent' = sent \o r.frames
                /\ calls' = Append(calls, Returned("SetPinMode", pin, mode, r.err, r.frames))
    /\ UNCHANGED <<initPC, runPC, header, lsb, wireLog, rpos, nSent, msgAt, dispatchLog, dw,
                   got, serial>>
    /\ UNCHANGED <<maj, min, firmware, pinsInitialized, analogMapping, analogToNormal, timers>>

\* DigitalWrite up to its loop: the port, and the update of the pin's value
\* when the pin is in the table.
DigitalWrite(pin, s) ==
    /\ CanCall
    /\ dw' = [pc |-> "loop", pin |-> pin, s |-> s, port |-> pinToPort(pin),
              i |-> 0, portVal |-> 0, log0 |-> Len(dispatchLog)]
    /\ pins' = IF pin \in DOMAIN pins THEN [pins EXCEPT ![pin].digitalVal = s] ELSE pins
    /\ UNCHANGED <<initPC, runPC, header, lsb, wireLog, rpos, nSent, msgAt, dispatchLog,
                   calls, got, serial>>
    /\ UNCHANGED <<maj, min, firmware, pinsInitialized, analogMapping, analogToNormal,
                   timers, sent>>

\* The loop body with portVal |= 1, the shift forgotten.
MaskStepNoShift(portVal, i, val) ==
    IF val # LOW THEN BitOr(portVal, 1) ELSE portVal

\* portVal |= 1 << i, for a pin that is not LOW.
MaskStep(portVal, i, val) ==
    IF val # LOW THEN BitOr(portVal, Shl(1, i)) ELSE portVal

\* One iteration of DigitalWrite's loop: pin 8*port + i is read, or is
\* missing and the call returns the error.
DigitalWriteLoop ==
    /\ Alive
    /\ dw.pc = "loop"
    /\ LET n == (8 * dw.port + dw.i) % 256
       IN  IF n \notin DOMAIN pins
           THEN /\ calls' = Append(calls, Returned("DigitalWrite", dw.pin, dw.s, TRUE, <<>>))
                /\ dw' = NoCall
           ELSE /\ dw' = [dw EXCEPT !.portVal = MaskStep(@, dw.i, pins[n].digitalVal),
                                    !.i = @ + 1,
                                    !.pc = IF dw.i + 1 < 8 THEN "loop" ELSE "send"]
                /\ UNCHANGED calls
    /\ UNCHANGED <<initPC, runPC, header, lsb, wireLog, rpos, nSent, msgAt, dispatchLog,
                   got, serial>>
    /\ UNCHANGED boardVars

\* The port message with the bitmask in two 7-bit bytes.
PortFrame(port, portVal) ==
    <<BitOr(digitalMessage, port), BitAnd(portVal, 127), BitAnd(Shr(portVal, 7), 127)>>

\* b.serial.Write(msg) and the return.
DigitalWriteSend ==
    /\ Alive
    /\ dw.pc = "send"
    /\ sent' = Append(sent, PortFrame(dw.port, dw.portVal))
    /\ calls' = Append(calls, Returned("DigitalWrite", dw.pin, dw.s, FALSE,
                                       <<PortFrame(dw.port, dw.portVal)>>))
    /\ dw' = NoCall
    /\ UNCHANGED <<initPC, runPC, header, lsb, wireLog, rpos, nSent, msgAt, dispatchLog,
                   got, serial>>
    /\ UNCHANGED <<maj, min, firmware, pinsInitialized, pins, analogMapping, analogToNormal,
                   timers>>

\* p, ok := b.pins[pin] with the zero value returned for a missing pin and
\* no error.
readPinZero(pin, field) ==
    IF pin \notin DOMAIN pins THEN [v |-> 0, err |-> FALSE]
    ELSE [v |-> IF field = "digitalVal" THEN pins[pin].digitalVal ELSE pins[pin].analogVal,
          err |-> FALSE]

\* p, ok := b.pins[pin]; if !ok { return 0, error }; the field of the pin.
readPin(pin, field) ==
    IF pin \notin DOMAIN pins THEN [v |-> 0, err |-> TRUE]
    ELSE [v |-> IF field = "digitalVal" THEN pins[pin].digitalVal ELSE pins[pin].analogVal,
          err |-> FALSE]

\* DigitalRead; the call's record holds the value returned as arg.
DigitalRead(pin) ==
    /\ CanCall
    /\ LET r == readPin(pin, "digitalVal")
       IN  calls' = Append(calls, Returned("DigitalRead", pin, r.v, r.err, <<>>))
    /\ UNCHANGED <<initPC, runPC, header, lsb, wireLog, rpos, nSent, msgAt, dispatchLog,
                   dw, got, serial>>
    /\ UNCHANGED boardVars

\* AnalogRead; the call's record holds the value returned as arg.
AnalogRead(pin) ==
    /\ CanCall
    /\ LET r == readPin(pin, "analogVal")
       IN  calls' = Append(calls, Returned("AnalogRead", pin, r.v, r.err, <<>>))
    /\ UNCHANGED <<initPC, runPC, header, lsb, wireLog, rpos, nSent, msgAt, dispatchLog,
                   dw, got, serial>>
    /\ UNCHANGED boardVars

\* AnalogWrite: log.Fatal is its first statement, the process exits.
AnalogWrite(pin, val) ==
    /\ CanCall
    /\ runPC' = "exited"
    /\ UNCHANGED <<initPC, header, lsb, wireLog, rpos, nSent, msgAt, dispatchLog>>
    /\ UNCHANGED boardVars
    /\ UNCHANGED apiVars

\* SetPinReporting; the call's record holds report as a byte.
SetPinReporting(pin, report) ==
    /\ CanCall
    /\ IF pin \notin DOMAIN pins
       THEN /\ calls' = Append(calls, Returned("SetPinReporting", pin, boolToByte(report),
                                               TRUE, <<>>))
            /\ UNCHANGED <<pins, sent>>
       ELSE LET r == setReporting(pins[pin], report)
            IN  /\ pins' = [pins EXCEPT ![pin] = r.p]
                /\ sent' = sent \o r.frames
                /\ calls' = Append(calls, Returned("SetPinReporting", pin, boolToByte(report),
                                                   r.err, r.frames))
    /\ UNCHANGED <<initPC, runPC, header, lsb, wireLog, rpos, nSent, msgAt, dispatchLog, dw,
                   got, serial>>
    /\ UNCHANGED <<maj, min, firmware, pinsInitialized, analogMapping, analogToNormal, timers>>

\* AnalogMapping() returning analogToNormal itself.
AnalogMappingShared == FALSE

\* make and copy: the slice AnalogMapping() returns has a backing array of
\* its own.
AnalogMappingFresh == TRUE

\* The owner calls AnalogMapping().
AnalogMappingCall ==
    /\ CanCall
    /\ got' = [fresh |-> AnalogMappingFresh, data |-> AnalogMapping]
    /\ calls' = Append(calls, Returned("AnalogMapping", 0, 0, FALSE, <<>>))
    /\ UNCHANGED <<initPC, runPC, header, lsb, wireLog, rpos, nSent, msgAt, dispatchLog,
                   dw, serial>>
    /\ UNCHANGED boardVars

\* The owner writes m[0] = 255 into the slice it was given; a write goes
\* to the backing array, whoever else holds it.
MutateSlice ==
    /\ Alive
    /\ Len(got.data) > 0
    /\ got.data[1] # 255
    /\ got' = [got EXCEPT !.data[1] = 255]
    /\ analogToNormal' = IF got.fresh THEN analogToNormal
                         ELSE [analogToNormal EXCEPT ![1] = 255]
    /\ UNCHANGED <<initPC, runPC, header, lsb, wireLog, rpos, nSent, msgAt, dispatchLog,
                   dw, calls, serial>>
    /\ UNCHANGED <<maj, min, firmware, pinsInitialized, pins, analogMapping, timers, sent>>

\* Close: serial.Flush(b.fd, serial.TCIOFLUSH) ...
CloseFlush ==
    /\ CanCall
    /\ serial' = "flushed"
    /\ UNCHANGED <<initPC, runPC, header, lsb, wireLog, rpos, nSent, msgAt, dispatchLog,
                   dw, calls, got>>
    /\ UNCHANGED boardVars

\* ... then b.serial.Close().
CloseClose ==
    /\ Alive
    /\ serial = "flushed"
    /\ serial' = "closed"
    /\ calls' = Append(calls, Returned("Close", 0, 0, FALSE, <<>>))
    /\ UNCHANGED <<initPC, runPC, header, lsb, wireLog, rpos, nSent, msgAt, dispatchLog,
                   dw, got>>
    /\ UNCHANGED boardVars

\* -------------------------------------------------- a board in service --
\* pins 0-7 = {Input, Output}
Cap8Frame ==
    <<startSysex, capabilityResponse>>
        \o [k \in 1..40 |-> <<INPUT, 1, OUTPUT, 1, 127>>[((k - 1) % 5) + 1]]
        \o <<endSysex>>
\* 128 empty records, then pin 128 = {Input, Output}
Cap128Frame ==
    <<startSysex, capabilityResponse>>
        \o [k \in 1..128 |-> 127]
        \o <<INPUT, 1, OUTPUT, 1, 127, endSysex>>
\* Port 0 with every pin high, and with every pin low.
Digital0High == <<digitalMessage, 127, 1>>
Digital0Low == <<digitalMessage, 0, 0>>

\* The handshakes a board in service has been through: the analog mapping
\* response, then the capability response.
Handshakes ==
    {<<MapFrameA, CapFrameA>>, <<MapFrameB, CapFrameB>>, <<MapFrameA, Cap8Frame>>,
     <<MapFrameA, Cap128Frame>>}

\* What the device sends to a board in service.
\* Analog index 0 reads 5.
Analog0Frame == <<analogMessage, 5, 0>>
\* A firmware report without version and name.
ShortFirmwareFrame == <<startSysex, reportFirmware, endSysex>>
ReportChunks ==
    {Digital0High, Digital0Low, DigitalFrame, StringFrame, Analog0Frame, ShortFirmwareFrame}

\* The arguments of the owner's calls.
WritePins == {1, 3, 7, 128}
ModePins == {0, 1, 3, 128}
Modes == {INPUT, OUTPUT, PWM, 7}
ReadPins == {1, 3}

\* The keys of a map in ascending order.
AscOrder(S) ==
    [i \in 1..Cardinality(S) |-> CHOOSE x \in S : Cardinality({y \in S : y < x}) = i - 1]

Dispatched(data, at) ==
    LET m == [t |-> sysexMsg, data |-> data]
    IN  [t |-> sysexMsg, data |-> data, at |-> at, cmd |-> CmdOf(m), cb |-> HandlerOf(m)]

\* The state New returns the board in after a handshake: both responses
\* handled, the table built by initPins, pinsInitialized set.
ApiInit ==
    \E h \in Handshakes :
        LET recs == CapRecords(SysexBody(h[2]))
            analog == CapMap(recs, "analog")
            digital == CapMap(recs, "digital")
            amap == StoreMapping(<<>>, SysexBody(h[1]), 1)
            b == BuildPins(<<>>, <<>>, analog, digital, amap,
                           AscOrder(DOMAIN analog), AscOrder(DOMAIN digital))
        IN  /\ initPC = "returned"
            /\ runPC = "header"
            /\ header = startSysex
            /\ lsb = 0
            /\ wireLog = h[1] \o h[2]
            /\ rpos = Len(h[1]) + Len(h[2])
            /\ nSent = 2
            /\ maj = 0
            /\ min = 0
            /\ firmware = <<>>
            /\ pinsInitialized = TRUE
            /\ pins = b.pins
            /\ analogMapping = amap
            /\ analogToNormal = b.a2n
            /\ timers = 0
            /\ sent = b.sent
            /\ msgAt = Len(h[1]) + 1
            /\ dispatchLog = <<Dispatched(h[1], 1), Dispatched(h[2], Len(h[1]) + 1)>>
            /\ dw = NoCall
            /\ calls = <<>>
            /\ got = NoSlice
            /\ serial = "open"

ApiNext ==
    \/ \E pin \in ModePins, mode \in Modes : SetPinMode(pin, mode)
    \/ \E pin \in WritePins, s \in {LOW, HIGH} : DigitalWrite(pin, s)
    \/ DigitalWriteLoop
    \/ DigitalWriteSend
    \/ \E pin \in ReadPins : DigitalRead(pin)
    \/ \E pin \in ReadPins : AnalogRead(pin)
    \/ \E pin \in ReadPins : AnalogWrite(pin, 9)
    \/ \E pin \in ModePins, report \in BOOLEAN : SetPinReporting(pin, report)
    \/ AnalogMappingCall
    \/ MutateSlice
    \/ CloseFlush
    \/ CloseClose
    \/ \E chunk \in ReportChunks : DeviceSend(chunk)
    \/ RunReadHeader
    \/ RunReadSysex
    \/ RunReadLsb
    \/ RunReadMsb

ApiSpec == ApiInit /\ [][ApiNext]_vars

\* The read loop and a Close under way are scheduled fairly; the owner and
\* the device owe nothing.
ApiFairSpec ==
    /\ ApiSpec
    /\ WF_vars(RunReadHeader)
    /\ WF_vars(RunReadSysex)
    /\ WF_vars(RunReadLsb)
    /\ WF_vars(RunReadMsb)
    /\ WF_vars(CloseClose)

\* =============================================================== claims --
IsCap(e) == e.cb = "handleCapabilityResponse"
IsMap(e) == e.cb = "handleAnalogMappingResponse"

\* The analog mapping as the messages dispatched up to the k-th left it.
RECURSIVE LoggedMapping(_)
LoggedMapping(k) ==
    IF k = 0 THEN <<>>
    ELSE IF IsMap(dispatchLog[k])
    THEN StoreMapping(LoggedMapping(k - 1), SysexBody(dispatchLog[k].data), 1)
    ELSE LoggedMapping(k - 1)

\* The capability responses handled with a mapping known; the first of
\* them is the one the table is built from.
BuildIdxs ==
    {k \in 1..Len(dispatchLog) :
        IsCap(dispatchLog[k]) /\ DOMAIN LoggedMapping(k - 1) # {}}

BuildIdx == CHOOSE k \in BuildIdxs : \A j \in BuildIdxs : k <= j

\* C1: when New has returned the Board, the pin table and analogToNormal
\* hold all of the build: every digital candidate of the capability
\* response the table was built from is a pin without analog number, every
\* analog candidate with a mapping entry is a pin with that analog number
\* and has its slot of analogToNormal, and the table holds nothing else.
C1_ReturnedOnlyWhenBuilt ==
    initPC = "returned" =>
        /\ BuildIdxs # {}
        /\ LET recs == CapRecords(SysexBody(dispatchLog[BuildIdx].data))
               analog == CapMap(recs, "analog")
               digital == CapMap(recs, "digital")
               amap == LoggedMapping(BuildIdx - 1)
           IN  /\ DOMAIN pins = DOMAIN digital \cup (DOMAIN analog \cap DOMAIN amap)
               /\ \A p \in DOMAIN digital : pins[p].analogNum = NoAnalog
               /\ \A p \in DOMAIN analog \cap DOMAIN amap :
                      /\ pins[p].analogNum = amap[p]
                      /\ analogToNormal[amap[p] + 1] = p
               /\ Len(analogToNormal) = Cardinality(DOMAIN amap)

\* New has returned a board with an analog and a digital pin.
C1_Witness ==
    /\ initPC = "returned"
    /\ \E p, q \in DOMAIN pins : pins[p].analogNum = NoAnalog /\ pins[q].analogNum # NoAnalog

IsSysexStream(w) ==
    /\ Len(w) >= 2
    /\ w[1] = startSysex
    /\ w[Len(w)] = endSysex
    /\ \A i \in 1..(Len(w) - 1) : w[i] # endSysex /\ w[i] # ReadErr

\* C3: when the line has carried one Sysex stream and run has read it, one
\* message was handed to handleCallback: a Sysex message whose data is the
\* stream, byte for byte.
C3_SysexFramedVerbatim ==
    (IsSysexStream(wireLog) /\ rpos = Len(wireLog)) =>
        /\ Len(dispatchLog) = 1
        /\ dispatchLog[1].t = sysexMsg
        /\ dispatchLog[1].data = wireLog

\* The frame of more than 255 bytes was read and dispatched.
C3_Witness ==
    /\ wireLog = LongFrame
    /\ rpos = Len(wireLog)
    /\ Len(dispatchLog) = 1

\* A fixed-width header the protocol engine knows: a digital or analog
\* message of any port or pin, or the protocol version.
Recognized(h) ==
    \/ h - (h % 16) \in {digitalMessage, analogMessage}
    \/ h = reportVersion

OneMessage(t, data) ==
    /\ Len(dispatchLog) = 1
    /\ dispatchLog[1].t = t
    /\ dispatchLog[1].data = data

\* C4: the bytes [h, lsb, msb] of a recognized header give one FixedWidth
\* message with that data; an unrecognized header byte is dropped alone,
\* so that the frame after it is framed as itself.
C4_UnrecognizedHeaderSkipped ==
    /\ (/\ Len(wireLog) = 3
        /\ Recognized(wireLog[1])
        /\ \A i \in 1..3 : wireLog[i] # ReadErr
        /\ rpos = 3) => OneMessage(midiMsg, wireLog)
    /\ \A F \in WholeFrames :
           (wireLog = StrayByte \o F /\ rpos = Len(wireLog)) =>
               /\ Len(dispatchLog) = 1
               /\ dispatchLog[1].data = F

\* The command identifier of a message, as the data model defines it.
CommandId(e) ==
    IF e.t = midiMsg
    THEN IF e.data[1] < 240 THEN e.data[1] - (e.data[1] % 16) ELSE e.data[1]
    ELSE e.data[2]

DispatchStep ==
    Len(dispatchLog') = Len(dispatchLog) + 1 =>
        LET e == dispatchLog'[Len(dispatchLog')]
        IN  /\ e.cmd = CommandId(e)
            /\ e.cb = (IF e.cmd \in DOMAIN msgHandlers THEN msgHandlers[e.cmd] ELSE "none")
            /\ e.cb = "none" =>
                   /\ UNCHANGED boardVars
                   /\ UNCHANGED initPC
                   /\ runPC' = "header"

\* C5: every call of handleCallback derives the command identifier of the
\* message (header without its low nibble below 0xF0, the header from 0xF0
\* on, the second byte of a Sysex message) and calls the handler registered
\* for it; with none registered the board is left as it was and run goes on
\* to the next header.
C5_DispatchByCommand == [][DispatchStep]_vars

\* An analog message of pin 3 (masked), a version message (verbatim) and a
\* Sysex message without handler were dispatched.
C5_Witness ==
    \E i, j, k \in 1..Len(dispatchLog) :
        /\ dispatchLog[i].data = AnalogFrame /\ dispatchLog[i].cmd = analogMessage
        /\ dispatchLog[j].data = VersionFrame /\ dispatchLog[j].cmd = reportVersion
        /\ dispatchLog[k].data = StringFrame /\ dispatchLog[k].cb = "none"

\* The messages were dispatched in the order of their bytes on the line,
\* each read to its end before its dispatch, none twice.
DispatchedInOrder ==
    /\ \A k \in 1..Len(dispatchLog) :
           LET e == dispatchLog[k]
           IN  /\ e.at + Len(e.data) - 1 <= rpos
               /\ \A i \in 2..Len(e.data) : e.data[i] = wireLog[e.at + i - 1]
    /\ \A k \in 1..(Len(dispatchLog) - 1) :
           dispatchLog[k + 1].at >= dispatchLog[k].at + Len(dispatchLog[k].data)

BlockedStep ==
    runPC \in {"reboot", "ready", "flag"} =>
        /\ rpos' = rpos
        /\ dispatchLog' = dispatchLog

\* C6: messages are dispatched in arrival order, and while a handler has
\* not returned run neither reads the line nor dispatches.
C6_InOrderDispatch ==
    /\ []DispatchedInOrder
    /\ [][BlockedStep]_vars

\* A second message's handler is blocked while further bytes wait.
C6_Witness ==
    /\ Len(dispatchLog) >= 2
    /\ runPC = "reboot"
    /\ rpos < Len(wireLog)

\* C7: after a frame cut short by a read error, whichever byte the error
\* hit, the next whole frame is the one message dispatched.
C7_ReadErrorDropsOnlyFrame ==
    \A B \in BrokenFrames, F \in WholeFrames :
        (wireLog = B \o F /\ rpos = Len(wireLog)) =>
            /\ Len(dispatchLog) = 1
            /\ dispatchLog[1].data = F

ModeSet(info) == {info[i] : i \in 1..Len(info)}

\* C8: once a capability response and an analog mapping response have both
\* been handled, New has returned and the table holds a digital pin for
\* every record with Input and Output and no Analog, and an analog pin with
\* its index for every record with Analog and a mapping entry other than
\* 0x7F, and nothing else.
C8_TableFromBothResponses ==
    \A i, j \in 1..Len(dispatchLog) :
        (/\ Len(dispatchLog) = 2
         /\ IsCap(dispatchLog[i])
         /\ IsMap(dispatchLog[j])
         /\ runPC \in {"header", "panic"}) =>
            LET recs == CapRecords(SysexBody(dispatchLog[i].data))
                body == SysexBody(dispatchLog[j].data)
                digitalPins == {p \in 0..(Len(recs) - 1) :
                                   /\ {INPUT, OUTPUT} \subseteq ModeSet(recs[p + 1])
                                   /\ ANALOG \notin ModeSet(recs[p + 1])}
                analogPins == {p \in 0..(Len(recs) - 1) :
                                  /\ ANALOG \in ModeSet(recs[p + 1])
                                  /\ p + 1 <= Len(body)
                                  /\ body[p + 1] # NoAnalog}
            IN  /\ initPC = "returned"
                /\ DOMAIN pins = digitalPins \cup analogPins
                /\ \A p \in digitalPins : pins[p].analogNum = NoAnalog
                /\ \A p \in analogPins : pins[p].analogNum = body[p + 1]

NoMapYet == \A k \in 1..Len(dispatchLog) : ~IsMap(dispatchLog[k])

RetryStep ==
    (/\ Len(dispatchLog') = Len(dispatchLog) + 1
     /\ IsCap(dispatchLog'[Len(dispatchLog')])
     /\ NoMapYet
     /\ ~pinsInitialized
     /\ initPC # "returned") =>
        /\ pins' = pins
        /\ analogToNormal' = analogToNormal
        /\ pinsInitialized' = pinsInitialized
        /\ initPC' = initPC
        /\ runPC' = "header"
        /\ sent' = Append(sent, <<240, 105, 247>>)
        /\ timers' = timers + 1

TimerStep ==
    timers' < timers =>
        /\ timers' = timers - 1
        /\ sent' = Append(sent, <<240, 107, 247>>)

\* C9: a capability response handled before any analog mapping response,
\* the board not Ready, creates no pin and does not send on b.ready; it
\* writes one analog mapping query and starts one timer, and a timer that
\* fires writes one capability query.
C9_RetryWithoutMapping == [][RetryStep /\ TimerStep]_vars

\* The capability response came first, the query was written and the timer
\* has fired.
C9_Witness ==
    /\ Len(dispatchLog) = 1
    /\ IsCap(dispatchLog[1])
    /\ timers = 0
    /\ sent = << <<240, 105, 247>>, <<240, 107, 247>> >>
    /\ pins = <<>>
    /\ initPC = "select"

\* C10: an analog mapping response handled after a capability response,
\* the table not yet built, builds the table: when its handler is done New
\* has returned and the board is Ready.
C10_BuildOnMapping ==
    (/\ Len(dispatchLog) >= 2
     /\ IsMap(dispatchLog[Len(dispatchLog)])
     /\ Len(SysexBody(dispatchLog[Len(dispatchLog)].data)) > 0
     /\ \E j \in 1..(Len(dispatchLog) - 1) : IsCap(dispatchLog[j])
     /\ \A j \in 1..(Len(dispatchLog) - 1) : ~IsMap(dispatchLog[j])
     /\ runPC = "header") =>
        /\ initPC = "returned"
        /\ pinsInitialized


IsFw(e) == e.cb = "handleReportFirmware"

FwCount == Cardinality({k \in 1..Len(dispatchLog) : IsFw(dispatchLog[k])})

\* New takes the signal of a firmware report and starts to send the queries.
SequenceStarts == initPC = "select" /\ initPC' = "sendAMQ"

\* C11: once the first firmware report has been handled and New has taken
\* its signal, the analog mapping query and the capability query are what
\* was sent; New starts to send the two queries on account of the first
\* firmware report only, never of a later one.
C11_SequenceStartedOnce ==
    /\ []((/\ Len(dispatchLog) = 1
           /\ IsFw(dispatchLog[1])
           /\ runPC # "reboot"
           /\ initPC = "select") => sent = << <<240, 105, 247>>, <<240, 107, 247>> >>)
    /\ [][SequenceStarts => FwCount = 1]_vars

HasCapabilityQuery == \E i \in 1..Len(sent) : sent[i] = <<240, 107, 247>>

\* C12: once New has started the read loop, a capability query is
\* eventually written, whatever the device does.
C12_QueryWithoutFirmware == (initPC = "select") ~> HasCapabilityQuery

\* C13: New eventually returns, with the board or with an error.
C13_ConstructionTerminates == <>(initPC \in {"returned", "failed"})

\* C14: once a capability response has been handled with a mapping known,
\* the process has not panicked, no pin of the table carries 0x7F as the
\* analog number of an analog-capable pin, and analogToNormal names only
\* pins with an analog number of their own.
C14_SentinelPinLeftOut ==
    BuildIdxs # {} =>
        /\ runPC # "panic"
        /\ \A p \in DOMAIN pins :
               Contains(pins[p].supportedModes, <<ANALOG>>) => pins[p].analogNum # NoAnalog

\* C15: after a firmware report [0xF0, 0x79, major, minor, name..., 0xF7]
\* is the one message handled, Firmware() gives that name and the version
\* major.minor.
C15_FirmwareRecorded ==
    (/\ Len(dispatchLog) = 1
     /\ IsFw(dispatchLog[1])
     /\ Len(dispatchLog[1].data) >= 5) =>
        LET d == dispatchLog[1].data
        IN  Firmware = <<SubSeq(d, 5, Len(d) - 1), <<d[3], d[4]>> >>


\* The pin numbers of the port of pin p.
PortPins(p) == {n \in 0..255 : n \div 8 = p \div 8}

\* C16: a DigitalWrite(p, v) with one of the 8 pins of p's port missing from
\* the table has returned an error and has written nothing.
C16_IncompletePortRefused ==
    \A k \in 1..Len(calls) :
        (/\ calls[k].op = "DigitalWrite"
         /\ ~(PortPins(calls[k].pin) \subseteq DOMAIN pins)) =>
            /\ calls[k].err
            /\ calls[k].frames = <<>>

\* The last known digital value of pin n as a bit, and the values of pins
\* 0-7 as a number.
Bit(n) == IF pins[n].digitalVal # LOW THEN 1 ELSE 0

Mask0 ==
    Bit(0) + 2 * Bit(1) + 4 * Bit(2) + 8 * Bit(3) + 16 * Bit(4) + 32 * Bit(5)
        + 64 * Bit(6) + 128 * Bit(7)

\* DigitalWrite(p, High), p in port 0, writes its frame, and no message was
\* dispatched since the call began.
QuietSend ==
    /\ dw.pc = "send"
    /\ dw'.pc = "idle"
    /\ dw.s = HIGH
    /\ dw.pin \in 0..7
    /\ Len(dispatchLog) = dw.log0

DuringWrite == dw.pc # "idle" /\ dw' = dw

\* C18: while a DigitalWrite on a port with all 8 pins is in progress, no
\* other goroutine changes the value of a pin of that port.
C18_WriteAtomic ==
    [][(DuringWrite /\ PortPins(8 * dw.port) \subseteq DOMAIN pins) =>
          \A n \in PortPins(8 * dw.port) :
              pins'[n].digitalVal = pins[n].digitalVal]_vars

\* C19: the mode of every pin of the table is one of its supported modes.
C19_ModeSupported ==
    \A p \in DOMAIN pins : pins[p].mode \in ModeSet(pins[p].supportedModes)

\* A SetPinMode has changed a pin's mode and another has failed on a pin of
\* the table.
C19_Witness ==
    \E j, k \in 1..Len(calls) :
        /\ calls[j].op = "SetPinMode" /\ ~calls[j].err
        /\ pins[calls[j].pin].mode = INPUT
        /\ calls[k].op = "SetPinMode" /\ calls[k].err
        /\ calls[k].pin \in DOMAIN pins

\* A SetPinMode(p, m) returns, p in the table, m not a mode p supports or
\* not a pin mode.
UnsupportedReturn ==
    /\ Len(calls') = Len(calls) + 1
    /\ LET c == calls'[Len(calls')]
       IN  /\ c.op = "SetPinMode"
           /\ c.pin \in DOMAIN pins
           /\ \/ c.arg \notin ModeSet(pins[c.pin].supportedModes)
              \/ c.arg \notin 0..6

\* C20: SetPinMode(p, m) with m not among the supported modes of p, or not
\* a pin mode, returns an error, leaves the pin table as it was and writes
\* nothing.
C20_UnsupportedModeRefused ==
    [][UnsupportedReturn =>
          /\ calls'[Len(calls')].err
          /\ pins' = pins
          /\ sent' = sent]_vars

\* Both kinds of refusal have happened on a pin of the table.
C20_Witness ==
    \E j, k \in 1..Len(calls) :
        /\ calls[j].op = "SetPinMode" /\ calls[j].arg = PWM /\ calls[j].err
        /\ calls[j].pin \in DOMAIN pins
        /\ calls[k].op = "SetPinMode" /\ calls[k].arg = 7 /\ calls[k].err
        /\ calls[k].pin \in DOMAIN pins


\* The call that returns in this step.
LastCall == calls'[Len(calls')]

CallReturns(op) ==
    /\ Len(calls') = Len(calls) + 1
    /\ LastCall.op = op

\* SetPinMode(p, m) returns, p in the table.
ModeReturn == CallReturns("SetPinMode") /\ LastCall.pin \in DOMAIN pins

\* C21: SetPinMode(p, m), m a pin mode that p supports and is not in,
\* returns no error, writes the one frame [0xF4, p, m] and leaves p in m.
C21_ModeChangeSent ==
    [][(/\ ModeReturn
        /\ LastCall.arg \in 0..6
        /\ LastCall.arg \in ModeSet(pins[LastCall.pin].supportedModes)
        /\ LastCall.arg # pins[LastCall.pin].mode) =>
           (/\ ~LastCall.err
            /\ sent' = Append(sent, <<244, LastCall.pin, LastCall.arg>>)
            /\ pins'[LastCall.pin].mode = LastCall.arg)]_vars

\* SetPinMode(1, INPUT) has succeeded on a pin in OUTPUT.
C21_Witness ==
    \E k \in 1..Len(calls) :
        calls[k] = Returned("SetPinMode", 1, INPUT, FALSE, << <<244, 1, 0>> >>)

\* C22: SetPinMode(p, m) with p already in mode m returns no error, leaves
\* the pin table as it was and writes nothing.
C22_SameModeNoOp ==
    [][(ModeReturn /\ LastCall.arg = pins[LastCall.pin].mode) =>
           (/\ ~LastCall.err
            /\ pins' = pins
            /\ sent' = sent)]_vars

\* SetPinReporting(p, enabled) returns, p in the table.
ReportingReturn == CallReturns("SetPinReporting") /\ LastCall.pin \in DOMAIN pins

\* C23: SetPinReporting(p, enabled) on a pin in ANALOG writes
\* [0xC0 | analogNum, enabled], on a pin in INPUT [0xD0 | port, enabled];
\* it returns no error and the pin's reporting flag is enabled.
C23_ReportToggleSent ==
    [][(ReportingReturn /\ pins[LastCall.pin].mode \in {ANALOG, INPUT}) =>
           LET q == pins[LastCall.pin]
           IN  /\ ~LastCall.err
               /\ pins'[LastCall.pin].reporting = (LastCall.arg = 1)
               /\ sent' = Append(sent,
                                 IF q.mode = ANALOG
                                 THEN <<BitOr(192, q.analogNum), LastCall.arg>>
                                 ELSE <<BitOr(208, q.port), LastCall.arg>>)]_vars

\* C24: SetPinReporting(p, true) on a pin neither in INPUT nor in ANALOG
\* returns an error, writes nothing and leaves the pin as it was.
C24_ReportingRefused ==
    [][(/\ ReportingReturn
        /\ LastCall.arg = 1
        /\ pins[LastCall.pin].mode \notin {ANALOG, INPUT}) =>
           (/\ LastCall.err
            /\ sent' = sent
            /\ pins' = pins)]_vars

\* Reporting was refused on a pin of the table.
C24_Witness ==
    \E k \in 1..Len(calls) :
        /\ calls[k].op = "SetPinReporting"
        /\ calls[k].arg = 1
        /\ calls[k].err
        /\ calls[k].pin \in DOMAIN pins
        /\ ~pins[calls[k].pin].reporting

\* C25: DigitalRead, AnalogRead, SetPinMode and SetPinReporting on a pin
\* that is not in the table return an error; nothing is written, the pin
\* table is as it was and the process lives.
C25_UnknownPinRefused ==
    [][(/\ Len(calls') = Len(calls) + 1
        /\ LastCall.op \in {"DigitalRead", "AnalogRead", "SetPinMode", "SetPinReporting"}
        /\ LastCall.pin \notin DOMAIN pins) =>
           (/\ LastCall.err
            /\ sent' = sent
            /\ pins' = pins
            /\ Alive')]_vars

\* A read and a reporting call on a missing pin have returned.
C25_Witness ==
    \E j, k \in 1..Len(calls) :
        /\ calls[j].op \in {"DigitalRead", "AnalogRead"}
        /\ calls[j].pin \notin DOMAIN pins
        /\ calls[k].op \in {"SetPinMode", "SetPinReporting"}
        /\ calls[k].pin \notin DOMAIN pins

\* C26: no call of AnalogWrite ends the process.
C26_AnalogWriteReturns == runPC # "exited"

\* The analog messages dispatched for analog index a.
AnalogReports(a) ==
    {k \in 1..Len(dispatchLog) :
        /\ dispatchLog[k].cb = "handleAnalogMessage"
        /\ dispatchLog[k].data[1] % 16 = a}

\* The value of the last of them: lsb | msb << 7, a byte.
LastAnalogValue(a) ==
    LET k == CHOOSE x \in AnalogReports(a) : \A y \in AnalogReports(a) : y <= x
    IN  (dispatchLog[k].data[2] + 128 * dispatchLog[k].data[3]) % 256

\* C27: AnalogRead of a pin in ANALOG returns the value of the last analog
\* message handled for the pin's analog index.
C27_AnalogReadLatest ==
    [][(/\ CallReturns("AnalogRead")
        /\ LastCall.pin \in DOMAIN pins
        /\ pins[LastCall.pin].mode = ANALOG
        /\ AnalogReports(pins[LastCall.pin].analogNum) # {}) =>
           (/\ ~LastCall.err
            /\ LastCall.arg = LastAnalogValue(pins[LastCall.pin].analogNum))]_vars

\* Every analog pin of the table is at the position of its analog number.
MappingByIndex ==
    \A p \in DOMAIN pins :
        pins[p].analogNum # NoAnalog =>
            /\ pins[p].analogNum < Len(AnalogMapping)
            /\ AnalogMapping[pins[p].analogNum + 1] = p

\* C28: AnalogMapping() holds at position i the pin whose analog number is
\* i; the slice a call returns is equal to the board's, and a write of the
\* owner into a slice it was given leaves the board's mapping as it was.
C28_MappingCopied ==
    /\ []MappingByIndex
    /\ [][/\ CallReturns("AnalogMapping") => got'.data = analogToNormal
          /\ (got' # got /\ calls' = calls) => analogToNormal' = analogToNormal]_vars

\* The owner has written into the slice it was given; the board's differs.
C28_Witness ==
    /\ Len(got.data) > 0
    /\ got.data[1] = 255
    /\ analogToNormal[1] # 255
    /\ \E p \in DOMAIN pins : pins[p].analogNum # NoAnalog

\* C29: from some point on the read loop takes no step on a closed port.
C29_RunStopsAfterClose == <>[][serial = "closed" => runPC' = runPC]_vars

\* C30: when New has returned an error the read loop was not started,
\* nothing was written or dispatched, no timer runs, and New does nothing
\* more.
C30_OpenErrorReturned ==
    /\ [](initPC = "failed" =>
              /\ runPC = "off"
              /\ sent = <<>>
              /\ dispatchLog = <<>>
              /\ timers = 0)
    /\ [][initPC # "failed"]_vars

C30_Witness == initPC = "failed" /\ nSent = 0 /\ wireLog = <<>>

\* ------------------------------------------------------------------ C31 --
\* The step of run that hands a digital message to handleDigitalMessage.
DigitalDispatch ==
    /\ Len(dispatchLog') = Len(dispatchLog) + 1
    /\ dispatchLog'[Len(dispatchLog')].cb = "handleDigitalMessage"

DigitalReportStep ==
    DigitalDispatch =>
        LET e == dispatchLog'[Len(dispatchLog')]
            P == e.data[1] % 16
            V == (e.data[2] + 128 * e.data[3]) % 256
        IN  /\ DOMAIN pins' = DOMAIN pins
            /\ \A n \in DOMAIN pins :
                   IF n \div 8 = P /\ pins[n].mode = INPUT
                   THEN pins'[n] = [pins[n] EXCEPT !.digitalVal = (V \div (2 ^ (n % 8))) % 2]
                   ELSE pins'[n] = pins[n]

\* C31: handling a digital report of port P with value V sets the digital
\* value of every pin n in INPUT mode with n >> 3 = P to bit n mod 8 of V and
\* leaves every other pin, and every other field, as it was.
C31_DigitalReportStored == [][DigitalReportStep]_vars

\* ------------------------------------------------------------------ C32 --
\* The step of run that hands a Sysex message to handleCallback.
SysexDispatch ==
    /\ Len(dispatchLog') = Len(dispatchLog) + 1
    /\ dispatchLog'[Len(dispatchLog')].t = sysexMsg

ShortSysexStep ==
    SysexDispatch =>
        LET e == dispatchLog'[Len(dispatchLog')]
        IN  /\ runPC' # "panic"
            /\ (e.cb = "handleReportFirmware" /\ Len(e.data) < 5) =>
                   (UNCHANGED boardVars /\ runPC' = "header")

\* C32: no well-framed Sysex message makes the read loop fail; a firmware
\* report too short for its handler leaves the board as it was and run goes
\* on to the next header.
C32_ShortSysexSkipped == [][ShortSysexStep]_vars

\* ------------------------------------------------------------------ C33 --
\* The positions of the record terminators of a capability response's body,
\* and its k-th record (from 0) without the terminator.
Terminators(body) == {i \in 1..Len(body) : body[i] = 127}

TerminatorAt(body, k) ==
    IF k = 0 THEN 0
    ELSE CHOOSE i \in Terminators(body) :
             Cardinality({j \in Terminators(body) : j < i}) = k - 1

RecordOf(body, k) ==
    SubSeq(body, TerminatorAt(body, k) + 1, TerminatorAt(body, k + 1) - 1)

PairFirstSeq(rec) == [i \in 1..(Len(rec) \div 2) |-> rec[2 * i - 1]]
PairFirsts(rec) == ModeSet(PairFirstSeq(rec))

\* The step of run in which a capability response builds the table.
CapBuild ==
    /\ Len(dispatchLog') = Len(dispatchLog) + 1
    /\ dispatchLog'[Len(dispatchLog')].cb = "handleCapabilityResponse"
    /\ ~pinsInitialized
    /\ DOMAIN analogMapping # {}

\* The response gives no analog-capable pin an index outside the mapping.
IndexesInRange(body) ==
    \A k \in DOMAIN analogMapping :
        (k < Cardinality(Terminators(body)) /\ ANALOG \in PairFirsts(RecordOf(body, k))) =>
            analogMapping[k] < Cardinality(DOMAIN analogMapping)

RecordStep ==
    CapBuild =>
        LET body == SysexBody(dispatchLog'[Len(dispatchLog')].data)
            n == Cardinality(Terminators(body))
        IN  /\ \A k \in DOMAIN pins' :
                   /\ k < n
                   /\ Len(RecordOf(body, k)) % 2 = 0
                   /\ ModeSet(pins'[k].supportedModes) = PairFirsts(RecordOf(body, k))
            /\ \A k \in 0..(n - 1) :
                   (/\ Len(RecordOf(body, k)) % 2 = 0
                    /\ Contains(PairFirstSeq(RecordOf(body, k)), <<INPUT, OUTPUT>>)
                    /\ ANALOG \notin PairFirsts(RecordOf(body, k))
                    /\ runPC' # "panic") =>
                       k \in DOMAIN pins'
            /\ IndexesInRange(body) => runPC' = "ready"

\* C33: when a capability response builds the table, pin k comes from the
\* k-th 0x7F-terminated record, empty and malformed records counted; its
\* supported modes are the first bytes of the record's pairs; a record of
\* odd length gives no pin, the pins after it keep their numbers, and the
\* build goes on to signal readiness.
C33_RecordPerPin == [][RecordStep]_vars

\* New has returned after the response with a 3-byte record for pin 0: the
\* table holds pin 1 alone, from the second record.
C33_Witness ==
    /\ initPC = "returned"
    /\ \E i \in 1..Len(dispatchLog) : dispatchLog[i].data = CapFrameOdd
    /\ DOMAIN pins = {1}
    /\ pins[1].supportedModes = <<INPUT, OUTPUT>>

\* ------------------------------------------------------------------ C34 --
\* A handler is blocked in a channel send: handleReportFirmware on
\* boardDoneReboot, initPins on ready.
BlockedOnReboot == runPC = "reboot"
BlockedOnReady == runPC = "ready"

\* Once New has returned it stays returned and no handler sends on a channel.
ReturnedStep ==
    initPC = "returned" =>
        /\ initPC' = "returned"
        /\ runPC' \notin {"reboot", "ready"}

\* C34: every send a handler makes on boardDoneReboot or ready is received
\* by init; ready is received once, by the step with which New returns; and
\* after New has returned no handler blocks on either channel.
C34_HandshakeNoDeadlock ==
    /\ BlockedOnReboot ~> (initPC = "sendAMQ")
    /\ BlockedOnReady ~> (initPC = "returned")
    /\ [](initPC = "returned" => ~BlockedOnReboot /\ ~BlockedOnReady)
    /\ [][ReturnedStep]_vars

\* Both sends were made and received: a firmware report started the query
\* sequence, the table was built, New has returned and run reads on.
C34_Witness ==
    /\ initPC = "returned"
    /\ pinsInitialized
    /\ runPC = "header"
    /\ dispatchLog # <<>>
    /\ IsFw(dispatchLog[1])
    /\ HasCapabilityQuery

\* ------------------------------------------------------------------ C35 --
\* The first statements of a DigitalWrite whose loop will meet a missing
\* pin of the port and return the error.
FailingWriteStarts ==
    /\ dw.pc = "idle"
    /\ dw'.pc = "loop"
    /\ \E i \in 0..7 : (8 * dw'.port + i) \notin DOMAIN pins

\* C35: a DigitalWrite that fails because a pin of the port is missing
\* leaves the pin table as it was, the digital value of its own pin
\* included.
C35_FailedWriteNoChange == [][FailingWriteStarts => pins' = pins]_vars

\* ------------------------------------------------------------------ C36 --
\* New returns in this state: init has received from ready, run has not yet
\* gone on.
NewReturns == initPC = "returned" /\ runPC = "flag"

IsAnalogPin(p) == ANALOG \in ModeSet(pins[p].supportedModes)

\* How many of the frames written so far equal f, and how many set the
\* mode of pin p.
SentCount(f) == Cardinality({i \in 1..Len(sent) : sent[i] = f})
ModeFrames(p) ==
    {i \in 1..Len(sent) : Len(sent[i]) = 3 /\ sent[i][1] = setPinMode /\ sent[i][2] = p}
ReportOffFrames ==
    {i \in 1..Len(sent) :
        Len(sent[i]) = 2 /\ sent[i][1] >= reportAnalog /\ sent[i][1] # startSysex}

\* C36: when New returns, every analog pin of the table is in ANALOG mode
\* with reporting off and every digital pin is in OUTPUT mode, and the
\* frames written hold one [0xF4, pin, mode] per pin and one
\* [0xC0 | analog index, 0] per analog pin.
C36_DefaultsAtReturn ==
    NewReturns =>
        /\ \A p \in DOMAIN pins :
               /\ IF IsAnalogPin(p)
                  THEN pins[p].mode = ANALOG /\ ~pins[p].reporting
                  ELSE pins[p].mode = OUTPUT
               /\ Cardinality(ModeFrames(p)) = 1
               /\ SentCount(<<setPinMode, p, pins[p].mode>>) = 1
               /\ IsAnalogPin(p) =>
                      SentCount(<<BitOr(reportAnalog, pins[p].analogNum), 0>>)
                          = Cardinality({q \in DOMAIN pins :
                                            /\ IsAnalogPin(q)
                                            /\ pins[q].analogNum = pins[p].analogNum})
        /\ Cardinality(ReportOffFrames) = Cardinality({p \in DOMAIN pins : IsAnalogPin(p)})
        /\ \A i \in 1..Len(sent) :
               (Len(sent[i]) = 3 /\ sent[i][1] = setPinMode) => sent[i][2] \in DOMAIN pins

\* New returns a board with an analog pin and a digital pin, their three
\* frames written.
C36_Witness ==
    /\ NewReturns
    /\ \E p, q \in DOMAIN pins : IsAnalogPin(p) /\ ~IsAnalogPin(q)
    /\ \E i \in 1..Len(sent) : sent[i] = <<reportAnalog, 0>>

====
